---- MODULE Spec2Model ----
(***************************************************************************)
(* A model of the network-facing logic of the HUSS dashboard:              *)
(*   - services/mockService.ts : fetchUrl, scrapeRealCarrier,              *)
(*     fetchSafetyData, fetchCarrierEmailFromSMS, cfDecodeEmail            *)
(*   - services/supabaseClient.ts : the carriers table wrappers            *)
(*   - pages/FMCSARegister.tsx : fetchRegisterData / loadMockData          *)
(*   - the FmcsaRegister page (fetchRecords and its effect)                *)
(* Each part has its own specification; the variables of the other parts   *)
(* stay at their initial values.                                           *)
(***************************************************************************)
EXTENDS Integers, Sequences, FiniteSets, TLC

VARIABLES
    \* ---- mockService.ts: one call of scrapeRealCarrier / fetchSafetyData
    pc,        \* "idle" | "backend" | "fetch" | "done"
    fn,        \* "none" | "scrapeRealCarrier" | "fetchSafetyData"
    arg,       \* mcNumber resp. dot of the running call
    useProxy,  \* the useProxy argument of the running call
    backend,   \* the backend lookup of the running call: NoReq, Pending or its answer
    fetches,   \* the fetchUrl invocations of the running call, in order
    carrier,   \* the carrier object built at mockService.ts:194-216
    ret        \* how the running call ended

scrapeVars == <<pc, fn, arg, useProxy, backend, fetches, carrier, ret>>

VARIABLES
    \* ---- the FmcsaRegister page (register page backed by /api/v1/fmcsa)
    selectedDate, selectedCategory, searchQuery,   \* useState, lines 62-64
    records, totalRecords, categories,             \* useState, lines 57-59
    isLoading, isLoadingDates,                     \* useState, lines 65, 67
    scraping,       \* handleScrape in flight: NoScrape or the closure it captured
    inflight,       \* the /records requests not yet answered
    issued,         \* how many /records requests were issued
    failures        \* how many of them failed

pageVars == <<selectedDate, selectedCategory, searchQuery, records, totalRecords,
              categories, isLoading, isLoadingDates, scraping, inflight, issued,
              failures>>

VARIABLES
    \* ---- cfDecodeEmail (mockService.ts:11-23)
    cfKey,      \* the key byte the input was obfuscated with
    cfPlain,    \* the bytes that were obfuscated
    cfEncoded,  \* the argument: a string, as its sequence of character codes
    cfEmail     \* the result, once the function has run

decodeVars == <<cfKey, cfPlain, cfEncoded, cfEmail>>

VARIABLES
    \* ---- pages/FMCSARegister.tsx
    registerData,   \* useState, line 18
    regLoading,     \* isLoading, line 19
    lastUpdated,    \* line 20: "" or the time of the last load
    regError,       \* error, line 23: a string as the sequence of its parts
    regQuery,       \* the query in flight: NoReq or Pending
    regBefore,      \* registerData when the last fetchRegisterData began
    regOutcome      \* what the last completed query answered

registerVars == <<registerData, regLoading, lastUpdated, regError, regQuery, regBefore,
                  regOutcome>>

VARIABLES
    \* ---- services/supabaseClient.ts
    table,     \* the rows of carriers, in the order of created_at
    now,       \* the clock of the database
    saved,     \* the carrier of the last successful save, while no other write followed
    sbCall     \* the last completed call: its operation, input, backend outcome, result

supabaseVars == <<table, now, saved, sbCall>>

vars == <<scrapeVars, pageVars, decodeVars, registerVars, supabaseVars>>

(***************************************************************************)
(* JavaScript values                                                       *)
(***************************************************************************)
Null == [ty |-> "null"]
Obj == [ty |-> "object"]
Str(b) == [ty |-> "string", body |-> b]
IsString(v) == v.ty = "string"

NoReq == [status |-> "none"]
Pending == [status |-> "pending"]

(***************************************************************************)
(* Response bodies.  text says what the characters of the body are: the    *)
(* JSON literal null, a JSON object, or an HTML page (not valid JSON).     *)
(* For an HTML page the other fields say what the DOM queries of the       *)
(* scraper find in it.                                                     *)
(***************************************************************************)
DotValues == {"", "UNKNOWN", "1234"}
EmailValues == {"", "a@b.c"}
RatingValues == {"none", "Satisfactory"}

NoPage == [center |-> FALSE, dot |-> "", email |-> "", rating |-> "none"]
JsonBody(t) == [text |-> t, page |-> NoPage]
HtmlBodies ==
    { [text |-> "html", page |-> p] :
        p \in [center : BOOLEAN, dot : DotValues, email : {""}, rating : {"none"}]
              \cup [center : {FALSE}, dot : {""}, email : EmailValues, rating : RatingValues] }
Bodies == {JsonBody("null"), JsonBody("object")} \cup HtmlBodies

\* What fetch() can produce: a network error, a non-OK status, an OK response
\* whose body cannot be read, or an OK response with a content type and a body.
Responses ==
    {[status |-> "neterr"], [status |-> "nonok"], [status |-> "okbroken"]}
    \cup [status : {"ok"}, ctype : {"application/json", "text/html"}, body : Bodies]

Failed(r) == r.status \in {"neterr", "nonok", "okbroken"}

\* JSON.parse(text): the parsed value, or Throws when text is not JSON.
Throws == [ty |-> "throws"]
JSONParse(b) ==
    CASE b.text = "null" -> Null
      [] b.text = "object" -> Obj
      [] OTHER -> Throws

\* The backend lookups (backendService.ts is not part of the sources): they
\* answer null or a result object.
BackendResult(name) == [ty |-> "backendResult", name |-> name]
BackendAnswers == {Null, BackendResult("ACME"), BackendResult("ZETA")}
\* The test of the backend result negated.
TruthyNegated(v) == v.ty = "null"

\* if (backendResult), if (carrier.dotNumber): JavaScript truthiness.
Truthy(v) == v.ty \notin {"null"}

Args == {"111", "222"}

(***************************************************************************)
(* fetchUrl (mockService.ts:42-72)                                         *)
(***************************************************************************)
proxyGenerators == <<"allorigins", "codetabs">>

ProxyIndex(route) == CHOOSE i \in 1..Len(proxyGenerators) : proxyGenerators[i] = route

Req(route) == [route |-> route, resp |-> Pending]

\* The marker for "this request decided nothing, go on to the next one".
FallThrough == [ty |-> "fallthrough"]

\* Lines 44-50: the direct request.  A network error, or a body that cannot
\* be read or parsed, is caught and ends fetchUrl with null; a non-OK answer
\* leaves the if block without returning.
DirectResult(r) ==
    CASE r.status = "neterr" -> Null
      [] r.status = "okbroken" -> Null
      [] r.status = "nonok" -> FallThrough
      [] OTHER ->
           IF r.ctype = "application/json"
           THEN (IF JSONParse(r.body) = Throws THEN Null ELSE JSONParse(r.body))
           ELSE Str(r.body)

\* ProxyResult with the catch of the direct branch (return null) in the loop.
ProxyResultCatchReturns(r) ==
    CASE r.status = "ok" ->
           (IF JSONParse(r.body) = Throws THEN Str(r.body) ELSE JSONParse(r.body))
      [] r.status = "nonok" -> FallThrough
      [] OTHER -> Null

\* Lines 59-69: one proxy request.  The first OK answer is returned, parsed
\* as JSON when it parses and as text otherwise; anything else is swallowed.
ProxyResult(r) ==
    IF r.status = "ok"
    THEN (IF JSONParse(r.body) = Throws THEN Str(r.body) ELSE JSONParse(r.body))
    ELSE FallThrough

\* fetchUrl up to its first await.
FetchUrlStart(p, up) ==
    [page |-> p, useProxy |-> up,
     reqs |-> <<Req(IF up THEN proxyGenerators[1] ELSE "direct")>>,
     ret |-> Pending]

\* fetchUrl from the answer r to its pending request up to the next await or
\* its return.
FetchUrlStep(f, r) ==
    LET n == Len(f.reqs)
        route == f.reqs[n].route
        answered == [f EXCEPT !.reqs[n].resp = r]
        res == IF route = "direct" THEN DirectResult(r) ELSE ProxyResult(r)
        next == IF route = "direct" THEN 1 ELSE ProxyIndex(route) + 1
    IN  IF res # FallThrough
        THEN [answered EXCEPT !.ret = res]
        ELSE IF next <= Len(proxyGenerators)
             THEN [answered EXCEPT !.reqs = Append(@, Req(proxyGenerators[next]))]
             ELSE [answered EXCEPT !.ret = Null]

(***************************************************************************)
(* scrapeRealCarrier, fetchCarrierEmailFromSMS, fetchSafetyData            *)
(***************************************************************************)
NoRet == [kind |-> "none"]
Return(v) == [kind |-> "return", val |-> v]
Throw(m) == [kind |-> "throw", msg |-> m]

Last(s) == s[Len(s)]
DocOf(v) == v.body.page

Carrier(mc, dot, email) ==
    [ty |-> "carrier", mcNumber |-> mc, dotNumber |-> dot, email |-> email]

\* The email lookup made whatever the USDOT number is.
EmailLookupAlways(dot) == TRUE

\* Lines 140-141 and 218: is the SMS page requested for this USDOT number?
EmailLookupWanted(dot) == dot # "" /\ dot # "UNKNOWN"

\* AfterSnapshot failing the way fetchSafetyData does (line 92).
AfterSnapshotThrows(fs, html) ==
    /\ ret' = IF ~IsString(html) THEN Throw("Could not fetch carrier")
              ELSE Return(Carrier(arg, DocOf(html).dot, ""))
    /\ pc' = "done"
    /\ fetches' = fs
    /\ UNCHANGED carrier

\* mockService.ts:173-223, from the answer of fetchUrl for the snapshot page.
AfterSnapshot(fs, html) ==
    IF ~IsString(html) \/ ~DocOf(html).center
    THEN /\ ret' = Return(Null)
         /\ pc' = "done"
         /\ fetches' = fs
         /\ UNCHANGED carrier
    ELSE LET c == Carrier(arg, DocOf(html).dot, "")
         IN  IF EmailLookupWanted(c.dotNumber)
             THEN /\ fetches' = Append(fs, FetchUrlStart("sms", useProxy))
                  /\ carrier' = c
                  /\ UNCHANGED <<pc, ret>>
             ELSE /\ ret' = Return(c)
                  /\ carrier' = c
                  /\ pc' = "done"
                  /\ fetches' = fs

\* mockService.ts:144-160 and 219-222, from the answer of fetchUrl for the
\* SMS registration page.
AfterSms(fs, result) ==
    LET email == IF IsString(result) THEN DocOf(result).email ELSE ""
        c == [carrier EXCEPT !.email = email]
    IN  /\ carrier' = c
        /\ ret' = Return(c)
        /\ pc' = "done"
        /\ fetches' = fs

\* mockService.ts:92-137, from the answer of fetchUrl for the SMS profile page.
AfterSafety(fs, html) ==
    /\ ret' = IF ~IsString(html)
              THEN Throw("Could not fetch safety data")
              ELSE Return([ty |-> "safety",
                           rating |-> IF DocOf(html).rating = "none" THEN "N/A"
                                      ELSE DocOf(html).rating])
    /\ pc' = "done"
    /\ fetches' = fs
    /\ UNCHANGED carrier

\* scrapeRealCarrier(mcNumber, useProxy) up to its first await (line 165).
CallScrape(mc, up) ==
    /\ pc = "idle"
    /\ pc' = "backend"
    /\ fn' = "scrapeRealCarrier"
    /\ arg' = mc
    /\ useProxy' = up
    /\ backend' = Pending
    /\ UNCHANGED <<fetches, carrier, ret>>

\* fetchSafetyData(dot) up to its first await (line 83).
CallSafety(dot) ==
    /\ pc = "idle"
    /\ pc' = "backend"
    /\ fn' = "fetchSafetyData"
    /\ arg' = dot
    /\ useProxy' = TRUE
    /\ backend' = Pending
    /\ UNCHANGED <<fetches, carrier, ret>>

\* Lines 165-172 resp. 83-90: the backend answers.
BackendReturns(b) ==
    /\ pc = "backend"
    /\ backend' = b
    /\ IF Truthy(b)
       THEN /\ ret' = Return(b)
            /\ pc' = "done"
            /\ UNCHANGED fetches
       ELSE /\ fetches' = <<FetchUrlStart(IF fn = "scrapeRealCarrier" THEN "snapshot"
                                          ELSE "safety", useProxy)>>
            /\ pc' = "fetch"
            /\ UNCHANGED ret
    /\ UNCHANGED <<fn, arg, useProxy, carrier>>

\* The pending request of the running fetchUrl is answered; the code runs on
\* to the next await or to the end of the call.
FetchResponds(r) ==
    /\ pc = "fetch"
    /\ LET f == FetchUrlStep(Last(fetches), r)
           fs == [fetches EXCEPT ![Len(fetches)] = f]
       IN  IF f.ret = Pending
           THEN fetches' = fs /\ UNCHANGED <<pc, carrier, ret>>
           ELSE CASE f.page = "snapshot" -> AfterSnapshot(fs, f.ret)
                  [] f.page = "sms" -> AfterSms(fs, f.ret)
                  [] OTHER -> AfterSafety(fs, f.ret)
    /\ UNCHANGED <<fn, arg, useProxy, backend>>

DirectResponds == \E r \in Responses :
    /\ pc = "fetch" /\ Last(Last(fetches).reqs).route = "direct"
    /\ FetchResponds(r)

ProxyResponds == \E r \in Responses :
    /\ pc = "fetch" /\ Last(Last(fetches).reqs).route # "direct"
    /\ FetchResponds(r)

PageIdle ==
    /\ selectedDate = ""
    /\ selectedCategory = "ALL"
    /\ searchQuery = <<>>
    /\ records = {}
    /\ totalRecords = 0
    /\ categories = {}
    /\ isLoading = FALSE
    /\ isLoadingDates = TRUE
    /\ scraping = [active |-> FALSE]
    /\ inflight = {}
    /\ issued = 0
    /\ failures = 0

ScrapeIdle ==
    /\ pc = "idle"
    /\ fn = "none"
    /\ arg = ""
    /\ useProxy = FALSE
    /\ backend = NoReq
    /\ fetches = <<>>
    /\ carrier = Null
    /\ ret = NoRet

DecodeIdle ==
    /\ cfKey = 0
    /\ cfPlain = <<>>
    /\ cfEncoded = <<>>
    /\ cfEmail = [ty |-> "undefined"]

RegisterIdle ==
    /\ registerData = <<>>
    /\ regLoading = FALSE
    /\ lastUpdated = ""
    /\ regError = <<>>
    /\ regQuery = NoReq
    /\ regBefore = <<>>
    /\ regOutcome = NoReq

SupabaseIdle ==
    /\ table = <<>>
    /\ now = 0
    /\ saved = NoReq
    /\ sbCall = [op |-> "none"]

ScrapeInit == ScrapeIdle /\ PageIdle /\ DecodeIdle /\ RegisterIdle /\ SupabaseIdle

ScrapeNext ==
    \/ \E mc \in Args, up \in BOOLEAN : CallScrape(mc, up) /\ UNCHANGED <<pageVars, decodeVars, registerVars, supabaseVars>>
    \/ \E dot \in Args : CallSafety(dot) /\ UNCHANGED <<pageVars, decodeVars, registerVars, supabaseVars>>
    \/ \E b \in BackendAnswers : BackendReturns(b) /\ UNCHANGED <<pageVars, decodeVars, registerVars, supabaseVars>>
    \/ DirectResponds /\ UNCHANGED <<pageVars, decodeVars, registerVars, supabaseVars>>
    \/ ProxyResponds /\ UNCHANGED <<pageVars, decodeVars, registerVars, supabaseVars>>

SpecScrape == ScrapeInit /\ [][ScrapeNext]_vars

(***************************************************************************)
(* Properties of the scraping fallback                                     *)
(***************************************************************************)
Range(s) == {s[i] : i \in 1..Len(s)}
AllReqs == UNION {Range(fetches[i].reqs) : i \in 1..Len(fetches)}
ProxyReqs(f) == SelectSeq(f.reqs, LAMBDA q : q.route # "direct")
InFlight ==
    (IF backend = Pending THEN 1 ELSE 0)
    + Cardinality(UNION {{<<i, j>> : j \in {k \in 1..Len(fetches[i].reqs) :
                                                fetches[i].reqs[k].resp = Pending}} :
                         i \in 1..Len(fetches)})

\* The call is over, the backend had nothing, and every request to an FMCSA
\* page or a proxy failed.
EverythingFailed ==
    /\ pc = "done"
    /\ backend = Null
    /\ AllReqs # {}
    /\ \A q \in AllReqs : Failed(q.resp)

\* C1 as amended: when the backend returns no result and every direct and
\* proxy request fails, scrapeRealCarrier completes and returns null, and it
\* never throws; fetchSafetyData in that situation throws the error "Could
\* not fetch safety data" instead of returning an empty record.
C1_FallbackOutcome ==
    /\ fn = "scrapeRealCarrier" => ret.kind # "throw"
    /\ EverythingFailed =>
         IF fn = "scrapeRealCarrier"
         THEN ret = Return(Null)
         ELSE ret = Throw("Could not fetch safety data")

C1_Witness ==
    /\ EverythingFailed
    /\ fn = "scrapeRealCarrier"
    /\ ~useProxy
    /\ Len(fetches[1].reqs) = 3

\* C1 as stated: with no backend result and every request failed, both
\* operations return an empty result and neither throws.
C1_Original_NeverThrows ==
    EverythingFailed => ret.kind = "return" /\ ret.val = Null

\* What the proxy chain of one fetchUrl invocation did, in order.
ChainInOrder(f) ==
    LET ps == ProxyReqs(f)
    IN  /\ Len(ps) <= Len(proxyGenerators)
        /\ \A i \in 1..Len(ps) : ps[i].route = proxyGenerators[i]
        /\ \A i \in 1..Len(ps) : i > 1 => Failed(ps[i - 1].resp)
        /\ \A i \in 1..Len(ps) : ps[i].resp.status = "ok" => i = Len(ps)

ChainRan(f) == f.ret # Pending /\ ProxyReqs(f) # <<>>
ChainAllFailed(f) ==
    /\ Len(ProxyReqs(f)) = Len(proxyGenerators)
    /\ \A q \in Range(ProxyReqs(f)) : Failed(q.resp)
ChainLast(f) == Last(ProxyReqs(f)).resp

\* C2 as amended: the proxies are tried in the order allorigins, codetabs;
\* the second is contacted only after the first failed; no proxy is
\* contacted after an OK answer; the value returned for the first OK answer
\* is its body parsed as JSON when the body is valid JSON and the body text
\* otherwise; null is returned when every proxy failed and also when the
\* first OK body is the JSON literal null, and in no other case.
C2_ProxyChain ==
    \A i \in 1..Len(fetches) :
        LET f == fetches[i]
        IN  /\ ChainInOrder(f)
            /\ ChainRan(f) =>
                 /\ ChainLast(f).status = "ok" =>
                      f.ret = IF JSONParse(ChainLast(f).body) = Throws
                              THEN Str(ChainLast(f).body)
                              ELSE JSONParse(ChainLast(f).body)
                 /\ f.ret = Null <=>
                      \/ ChainAllFailed(f)
                      \/ /\ ChainLast(f).status = "ok"
                         /\ ChainLast(f).body.text = "null"

C2_Witness ==
    \E i \in 1..Len(fetches) :
        /\ ChainRan(fetches[i])
        /\ Len(ProxyReqs(fetches[i])) = 2
        /\ ChainLast(fetches[i]).status = "ok"
        /\ ChainLast(fetches[i]).body.text = "null"
        /\ fetches[i].ret = Null

\* C2 as stated: proxies in order, the body of the first OK response is
\* what is returned, and null is returned exactly when every proxy failed.
C2_Original_BodyReturned ==
    \A i \in 1..Len(fetches) :
        LET f == fetches[i]
        IN  /\ ChainInOrder(f)
            /\ ChainRan(f) =>
                 /\ ChainLast(f).status = "ok" => f.ret = Str(ChainLast(f).body)
                 /\ f.ret = Null <=> ChainAllFailed(f)

\* C3 as stated: a fetchUrl invocation with useProxy=false issues only the
\* direct request, whatever its outcome, and one with useProxy=true issues
\* only proxy requests.
C3_OneRoutePerCall ==
    \A i \in 1..Len(fetches) :
        \A q \in Range(fetches[i].reqs) :
            (q.route = "direct") <=> ~fetches[i].useProxy

\* C9: the requests of scrapeRealCarrier are a linear sequence: never two in
\* flight; no page is requested before the backend lookup completed with no
\* result; the SMS email page is requested only after the snapshot page came
\* back as text with a <center> element and a non-empty USDOT number; at
\* most one email lookup per call.
C9_LinearSequence ==
    fn = "scrapeRealCarrier" =>
        /\ InFlight <= 1
        /\ fetches # <<>> => backend = Null /\ fetches[1].page = "snapshot"
        /\ \A i \in 1..Len(fetches) :
             fetches[i].page = "sms" =>
                /\ i = 2
                /\ IsString(fetches[1].ret)
                /\ DocOf(fetches[1].ret).center
                /\ DocOf(fetches[1].ret).dot # ""
        /\ Len(fetches) <= 2

C9_Witness ==
    /\ fn = "scrapeRealCarrier"
    /\ Len(fetches) = 2
    /\ fetches[2].page = "sms"
    /\ Last(fetches[2].reqs).resp = Pending

\* C10: backend-first: when the backend call returns a non-empty result,
\* that result is what the operation returns and no request to an FMCSA page
\* or a proxy is issued.
C10_BackendFirst ==
    (backend \notin {NoReq, Pending, Null}) =>
        /\ pc = "done"
        /\ ret = Return(backend)
        /\ fetches = <<>>

C10_Witness ==
    /\ fn = "fetchSafetyData"
    /\ backend = BackendResult("ZETA")
    /\ ret = Return(BackendResult("ZETA"))

(***************************************************************************)
(* The FmcsaRegister page: fetchRecords and the effect that calls it       *)
(***************************************************************************)
MaxRequests == 3

Dates == {"2026-02-19", "2026-02-20"}
Categories == {"ALL", "NAME CHANGE", "REVOCATION"}
\* What can be typed into the search box, as sequences of characters.
Queries == {<<>>, <<" ">>, <<"a">>, <<"a", " ">>}

\* String.prototype.trim on a sequence of characters.
RECURSIVE TrimLeft(_)
TrimLeft(q) == IF q # <<>> /\ Head(q) = " " THEN TrimLeft(Tail(q)) ELSE q
RECURSIVE TrimRight(_)
TrimRight(q) ==
    IF q # <<>> /\ q[Len(q)] = " " THEN TrimRight(SubSeq(q, 1, Len(q) - 1)) ELSE q
Trim(q) == TrimRight(TrimLeft(q))

\* Lines 108-117: the parameters of the request, from the state the closure
\* of fetchRecords captured.  Absent parameters are "-".
Params(date, category, query) ==
    [register_date |-> date,
     category |-> IF category # "" /\ category # "ALL" THEN category ELSE "-",
     search |-> IF Trim(query) # <<>> THEN Trim(query) ELSE <<"-">>]

\* The rows the server holds, and its answer to a request.  The server is
\* not part of the sources: its answer is a fixed function of the parameters.
ServerRows ==
    { [id |-> 1, register_date |-> "2026-02-19", category |-> "NAME CHANGE", info |-> <<"a">>],
      [id |-> 2, register_date |-> "2026-02-19", category |-> "REVOCATION", info |-> <<"b">>],
      [id |-> 3, register_date |-> "2026-02-20", category |-> "NAME CHANGE", info |-> <<"a">>] }

ServerAnswer(p) ==
    LET items == {r \in ServerRows :
                    /\ r.register_date = p.register_date
                    /\ p.category = "-" \/ r.category = p.category
                    /\ p.search = <<"-">> \/ r.info = p.search}
    IN  [items |-> items,
         total |-> Cardinality(items),
         categories |-> {r.category : r \in {x \in ServerRows :
                                              x.register_date = p.register_date}}]

\* Lines 104-123: fetchRecords up to its await, with the state its closure
\* captured.  Nothing happens without a selected date.
FetchRecordsStart(date, category, query) ==
    IF date = ""
    THEN UNCHANGED <<isLoading, inflight, issued>>
    ELSE /\ isLoading' = TRUE
         /\ inflight' = inflight \cup {[id |-> issued + 1,
                                        params |-> Params(date, category, query)]}
         /\ issued' = issued + 1

\* Lines 70-100 (mount): the dates arrive, the first one is selected, and the
\* effect of lines 179-183 runs for the new selectedDate.
DatesLoaded(dates) ==
    /\ isLoadingDates
    /\ isLoadingDates' = FALSE
    /\ IF dates # <<>>
       THEN /\ selectedDate' = dates[1]
            /\ FetchRecordsStart(dates[1], selectedCategory, searchQuery)
       ELSE UNCHANGED <<selectedDate, isLoading, inflight, issued>>
    /\ UNCHANGED <<selectedCategory, searchQuery, records, totalRecords, categories,
                   scraping, failures>>

\* Line 232 (the date select, disabled while the dates load) and the effect.
SetSelectedDate(d) ==
    /\ ~isLoadingDates
    /\ d # selectedDate
    /\ issued < MaxRequests
    /\ selectedDate' = d
    /\ FetchRecordsStart(d, selectedCategory, searchQuery)
    /\ UNCHANGED <<selectedCategory, searchQuery, records, totalRecords, categories,
                   isLoadingDates, scraping, failures>>

\* Line 319 (the category tabs) and the effect.
SetSelectedCategory(c) ==
    /\ c # selectedCategory
    /\ issued < MaxRequests
    /\ selectedCategory' = c
    /\ FetchRecordsStart(selectedDate, c, searchQuery)
    /\ UNCHANGED <<selectedDate, searchQuery, records, totalRecords, categories,
                   isLoadingDates, scraping, failures>>

\* Line 258 (the search box) and the effect.
SetSearchQuery(q) ==
    /\ q # searchQuery
    /\ issued < MaxRequests
    /\ searchQuery' = q
    /\ FetchRecordsStart(selectedDate, selectedCategory, q)
    /\ UNCHANGED <<selectedDate, selectedCategory, records, totalRecords, categories,
                   isLoadingDates, scraping, failures>>

\* Lines 125-128 and 134: a /records request is answered.
RecordsArrive(req) ==
    /\ req \in inflight
    /\ inflight' = inflight \ {req}
    /\ records' = ServerAnswer(req.params).items
    /\ totalRecords' = ServerAnswer(req.params).total
    /\ categories' = ServerAnswer(req.params).categories
    /\ isLoading' = FALSE
    /\ UNCHANGED <<selectedDate, selectedCategory, searchQuery, isLoadingDates,
                   scraping, issued, failures>>

\* Lines 129-134: a /records request fails.
RecordsFail(req) ==
    /\ req \in inflight
    /\ inflight' = inflight \ {req}
    /\ records' = {}
    /\ totalRecords' = 0
    /\ isLoading' = FALSE
    /\ failures' = failures + 1
    /\ UNCHANGED <<selectedDate, selectedCategory, searchQuery, categories,
                   isLoadingDates, scraping, issued>>

\* Lines 139-151: the Fetch Data button (disabled while scraping or without
\* a date); the handler keeps the fetchRecords of the render it was made in.
HandleScrape ==
    /\ ~scraping.active
    /\ selectedDate # ""
    /\ issued < MaxRequests
    /\ scraping' = [active |-> TRUE, date |-> selectedDate,
                    category |-> selectedCategory, query |-> searchQuery]
    /\ UNCHANGED <<selectedDate, selectedCategory, searchQuery, records, totalRecords,
                   categories, isLoading, isLoadingDates, inflight, issued, failures>>

\* Lines 153-172: the scrape is answered; with new records the page refetches
\* through the captured fetchRecords.
ScrapeAnswered(stored) ==
    /\ scraping.active
    /\ scraping' = [active |-> FALSE]
    /\ IF stored
       THEN FetchRecordsStart(scraping.date, scraping.category, scraping.query)
       ELSE UNCHANGED <<isLoading, inflight, issued>>
    /\ UNCHANGED <<selectedDate, selectedCategory, searchQuery, records, totalRecords,
                   categories, isLoadingDates, failures>>

PageInit == ScrapeIdle /\ PageIdle /\ DecodeIdle /\ RegisterIdle /\ SupabaseIdle

PageNext ==
    \/ \E dates \in {<<>>, <<"2026-02-20", "2026-02-19">>} :
         DatesLoaded(dates) /\ UNCHANGED <<scrapeVars, decodeVars, registerVars, supabaseVars>>
    \/ \E d \in Dates : SetSelectedDate(d) /\ UNCHANGED <<scrapeVars, decodeVars, registerVars, supabaseVars>>
    \/ \E c \in Categories : SetSelectedCategory(c) /\ UNCHANGED <<scrapeVars, decodeVars, registerVars, supabaseVars>>
    \/ \E q \in Queries : SetSearchQuery(q) /\ UNCHANGED <<scrapeVars, decodeVars, registerVars, supabaseVars>>
    \/ \E req \in inflight : RecordsArrive(req) /\ UNCHANGED <<scrapeVars, decodeVars, registerVars, supabaseVars>>
    \/ \E req \in inflight : RecordsFail(req) /\ UNCHANGED <<scrapeVars, decodeVars, registerVars, supabaseVars>>
    \/ HandleScrape /\ UNCHANGED <<scrapeVars, decodeVars, registerVars, supabaseVars>>
    \/ \E stored \in BOOLEAN : ScrapeAnswered(stored) /\ UNCHANGED <<scrapeVars, decodeVars, registerVars, supabaseVars>>

SpecPage == PageInit /\ [][PageNext]_vars

\* C4 as stated: once every request has completed (none failed), the
\* displayed records, totalRecords and categories are those of the response
\* to the request for the current date, category and search values.
C4_LatestRequestWins ==
    (inflight = {} /\ ~scraping.active /\ issued > 0 /\ failures = 0) =>
        LET a == ServerAnswer(Params(selectedDate, selectedCategory, searchQuery))
        IN  /\ records = a.items
            /\ totalRecords = a.total
            /\ categories = a.categories

(***************************************************************************)
(* cfDecodeEmail (mockService.ts:11-23).  Strings are sequences of         *)
(* character codes.                                                        *)
(***************************************************************************)
MaxLen == 2

RECURSIVE Xor(_, _)
\* a ^ b on non-negative integers.
Xor(a, b) ==
    IF a = 0 /\ b = 0 THEN 0
    ELSE (((a % 2) + (b % 2)) % 2) + 2 * Xor(a \div 2, b \div 2)

NaN == -1

\* The value of a character as a hexadecimal digit, NaN when it is none.
HexDigit(ch) ==
    CASE ch >= 48 /\ ch <= 57 -> ch - 48
      [] ch >= 97 /\ ch <= 102 -> ch - 87
      [] ch >= 65 /\ ch <= 70 -> ch - 55
      [] OTHER -> NaN

\* parseInt(str, 16) for a string of at most two characters: the leading
\* hexadecimal digits, NaN when there is none.
ParseInt16(str) ==
    IF str = <<>> \/ HexDigit(str[1]) = NaN THEN NaN
    ELSE IF Len(str) = 1 \/ HexDigit(str[2]) = NaN THEN HexDigit(str[1])
    ELSE 16 * HexDigit(str[1]) + HexDigit(str[2])

\* str.substr(n, 2), n counted from 0.
Substr2(str, n) ==
    SubSeq(str, n + 1, IF n + 2 <= Len(str) THEN n + 2 ELSE Len(str))

\* The operand of ^ : NaN converts to 0.
ToInt32(x) == IF x = NaN THEN 0 ELSE x

RECURSIVE DecodeLoop(_, _, _)
\* Lines 15-18: the loop from position n on.
DecodeLoop(encoded, n, r) ==
    IF n < Len(encoded)
    THEN <<Xor(ToInt32(ParseInt16(Substr2(encoded, n))), ToInt32(r))>>
         \o DecodeLoop(encoded, n + 2, r)
    ELSE <<>>

\* The loop started at the key instead of after it.
cfDecodeEmailFromStart(encoded) ==
    DecodeLoop(encoded, 0, ParseInt16(Substr2(encoded, 0)))

cfDecodeEmail(encoded) ==
    DecodeLoop(encoded, 2, ParseInt16(Substr2(encoded, 0)))

\* The obfuscation the function undoes: two lower-case hexadecimal digits
\* per byte, the key first, then each byte XOR the key.
HexChar(d) == IF d < 10 THEN 48 + d ELSE 87 + d
Hex2(b) == <<HexChar(b \div 16), HexChar(b % 16)>>
RECURSIVE Obfuscate(_, _)
Obfuscate(k, bytes) ==
    IF bytes = <<>> THEN <<>>
    ELSE Hex2(Xor(Head(bytes), k)) \o Obfuscate(k, Tail(bytes))
CfEncode(k, bytes) == Hex2(k) \o Obfuscate(k, bytes)

KeyBytes == 0..255
\* NUL, '.', '@', 'a', DEL and 255.
PlainBytes == {0, 46, 64, 97, 127, 255}
PlainTexts == UNION {[1..n -> PlainBytes] : n \in 0..MaxLen}

DecodeInit ==
    /\ ScrapeIdle /\ PageIdle /\ RegisterIdle /\ SupabaseIdle
    /\ cfKey \in KeyBytes
    /\ cfPlain \in PlainTexts
    /\ cfEncoded \in {CfEncode(cfKey, cfPlain), <<>>}
    /\ cfEmail = [ty |-> "undefined"]

\* cfDecodeEmail(cfEncoded) is called.
Decode ==
    /\ cfEmail.ty = "undefined"
    /\ cfEmail' = Str(cfDecodeEmail(cfEncoded))
    /\ UNCHANGED <<cfKey, cfPlain, cfEncoded>>

DecodeNext == Decode /\ UNCHANGED <<scrapeVars, pageVars, registerVars, supabaseVars>>

SpecDecode == DecodeInit /\ [][DecodeNext]_vars

\* C7: cfDecodeEmail inverts the obfuscation: decoding the hex string of the
\* key followed by each byte XOR the key yields exactly the bytes, and
\* decoding the empty string or a string holding only the key yields the
\* empty string.
C7_DecodeInverts ==
    cfEmail.ty = "string" =>
        /\ cfEncoded = CfEncode(cfKey, cfPlain) => cfEmail.body = cfPlain
        /\ Len(cfEncoded) <= 2 => cfEmail.body = <<>>

C7_Witness ==
    /\ cfEmail.ty = "string"
    /\ cfKey = 171
    /\ cfPlain = <<97, 64>>
    /\ cfEncoded = <<97, 98, 99, 97, 101, 98>>
    /\ cfEmail.body = <<97, 64>>

(***************************************************************************)
(* pages/FMCSARegister.tsx: fetchRegisterData and loadMockData             *)
(***************************************************************************)
MaxRows == 2

\* The rows of fmcsa_register the query can answer with.
RegisterRows ==
    [docket_number : {"MC-1"}, carrier_name : {"ACME"},
     published_date : {"2026-02-20", "bad"},
     category : {"NAME CHANGE", "", "null"}]
    \cup {[isNull |-> TRUE]}

RowLists == UNION {[1..n -> RegisterRows] : n \in 0..MaxRows}

\* What the awaited query yields: {data, error}, or an exception.
QueryOutcomes ==
    [kind : {"data"}, data : RowLists]
    \cup {[kind |-> "nodata"]}
    \cup [kind : {"error", "throws"}, message : {"", "timeout"}]

\* new Date(published_date).toLocaleDateString()
FormatDate(d) == IF d = "2026-02-20" THEN "2/20/2026" ELSE "Invalid Date"

\* Lines 57-62: one row mapped to the interface of the page.
MapRow(item) ==
    [number |-> item.docket_number,
     title |-> item.carrier_name,
     decided |-> FormatDate(item.published_date),
     category |-> IF item.category \in {"", "null"} THEN "GRANT DECISION NOTICES"
                  ELSE item.category]

MapRows(data) == [i \in 1..Len(data) |-> MapRow(data[i])]

\* Lines 79-82.
mockData ==
    << [number |-> "FF-40152", title |-> "PFL TRANSPORTATION SOLUTIONS INC - SURREY, BC",
        decided |-> "02/20/2026", category |-> "NAME CHANGE"],
       [number |-> "MC-19745", title |-> "MACON SIX TRANSPORT LLC - LANSING, IL",
        decided |-> "02/20/2026", category |-> "GRANT DECISION NOTICES"] >>

\* Does the try block of lines 45-68 reach setRegisterData?
Succeeds(o) ==
    /\ o.kind = "data"
    /\ o.data # <<>>
    /\ \A i \in 1..Len(o.data) : "isNull" \notin DOMAIN o.data[i]

\* err.message of what the try block throws.
ThrownMessage(o) ==
    CASE o.kind \in {"error", "throws"} -> o.message
      [] o.kind = "data" /\ o.data # <<>> -> "Cannot read properties of null"
      [] OTHER -> "No entries found in Supabase."

\* Line 71.
ErrorText(o) ==
    <<"Database Error: ",
      IF ThrownMessage(o) # "" THEN ThrownMessage(o) ELSE "Check connection",
      ". Showing mock data.">>

\* fetchRegisterData without the setError('') of line 43.
FetchRegisterDataKeepsError ==
    /\ ~regLoading
    /\ regLoading' = TRUE
    /\ regQuery' = Pending
    /\ regBefore' = registerData
    /\ UNCHANGED <<registerData, lastUpdated, regError, regOutcome>>

\* Lines 37-51 and 113-114: fetchRegisterData up to its await, on mount or
\* from the refresh button, which is disabled while loading.
FetchRegisterData ==
    /\ ~regLoading
    /\ regLoading' = TRUE
    /\ regError' = <<>>
    /\ regQuery' = Pending
    /\ regBefore' = registerData
    /\ UNCHANGED <<registerData, lastUpdated, regOutcome>>

\* Lines 53-75 and 78-85: the query is answered.
RegisterAnswered(o) ==
    /\ regQuery = Pending
    /\ regQuery' = NoReq
    /\ regOutcome' = o
    /\ IF Succeeds(o)
       THEN /\ registerData' = MapRows(o.data)
            /\ UNCHANGED regError
       ELSE /\ regError' = ErrorText(o)
            /\ registerData' = mockData
    /\ lastUpdated' = "now"
    /\ regLoading' = FALSE
    /\ UNCHANGED regBefore

RegisterInit == ScrapeIdle /\ PageIdle /\ DecodeIdle /\ RegisterIdle /\ SupabaseIdle

RegisterNext ==
    \/ FetchRegisterData /\ UNCHANGED <<scrapeVars, pageVars, decodeVars, supabaseVars>>
    \/ \E o \in QueryOutcomes :
         RegisterAnswered(o) /\ UNCHANGED <<scrapeVars, pageVars, decodeVars, supabaseVars>>

SpecRegister == RegisterInit /\ [][RegisterNext]_vars

\* C6: every completed fetchRegisterData ends in one of two states: after a
\* query with at least one row, registerData is the mapped rows and error is
\* empty; after an error, an exception or zero rows, registerData is exactly
\* the static mock entries and error is a non-empty message.  registerData
\* is never empty after a completed fetch.
C6_MappedOrMock ==
    (regOutcome # NoReq /\ ~regLoading) =>
        /\ IF Succeeds(regOutcome)
           THEN registerData = MapRows(regOutcome.data) /\ regError = <<>>
           ELSE registerData = mockData /\ regError # <<>> /\ regError[2] # ""
        /\ registerData # <<>>

\* A fetch that found no rows, after one that had loaded real rows, has
\* replaced them by the mock entries.
C6_Witness ==
    /\ ~regLoading
    /\ regBefore # <<>> /\ regBefore # mockData
    /\ regOutcome = [kind |-> "data", data |-> <<>>]
    /\ registerData = mockData
    /\ regError = <<"Database Error: ", "No entries found in Supabase.",
                    ". Showing mock data.">>

(***************************************************************************)
(* services/supabaseClient.ts: the carriers table and its wrappers.        *)
(* Text is a sequence of character codes, so that ilike is computed.       *)
(***************************************************************************)
Undefined == [ty |-> "undefined"]
Arr(items) == [ty |-> "array", items |-> items]

\* a ?? b
OrElseNullish(a, b) == IF a.ty \in {"undefined", "null"} THEN b ELSE a

\* a || b
OrElse(a, b) ==
    IF a.ty \in {"undefined", "null"} \/ (a.ty = "string" /\ Len(a.body) = 0)
    THEN b ELSE a

\* Lines 49-75 and 158-184: the fields of a carrier, the column each is
\* stored in, and how saveCarrierToSupabase fills the column:
\* "asis" (carrier.x), "orNull" (carrier.x || null), "orEmpty" (carrier.x || []).
Fields ==
    << <<"mcNumber", "mc_number", "asis">>,
       <<"dotNumber", "dot_number", "asis">>,
       <<"legalName", "legal_name", "asis">>,
       <<"dbaName", "dba_name", "orNull">>,
       <<"entityType", "entity_type", "asis">>,
       <<"status", "status", "asis">>,
       <<"email", "email", "orNull">>,
       <<"phone", "phone", "orNull">>,
       <<"powerUnits", "power_units", "orNull">>,
       <<"drivers", "drivers", "orNull">>,
       <<"nonCmvUnits", "non_cmv_units", "orNull">>,
       <<"physicalAddress", "physical_address", "orNull">>,
       <<"mailingAddress", "mailing_address", "orNull">>,
       <<"dateScraped", "date_scraped", "asis">>,
       <<"mcs150Date", "mcs150_date", "orNull">>,
       <<"mcs150Mileage", "mcs150_mileage", "orNull">>,
       <<"operationClassification", "operation_classification", "orEmpty">>,
       <<"carrierOperation", "carrier_operation", "orEmpty">>,
       <<"cargoCarried", "cargo_carried", "orEmpty">>,
       <<"outOfServiceDate", "out_of_service_date", "orNull">>,
       <<"stateCarrierId", "state_carrier_id", "orNull">>,
       <<"dunsNumber", "duns_number", "orNull">>,
       <<"safetyRating", "safety_rating", "orNull">>,
       <<"safetyRatingDate", "safety_rating_date", "orNull">>,
       <<"basicScores", "basic_scores", "orNull">>,
       <<"oosRates", "oos_rates", "orNull">>,
       <<"insurancePolicies", "insurance_policies", "orNull">> >>

FieldNames == {Fields[i][1] : i \in 1..Len(Fields)}
Columns == {Fields[i][2] : i \in 1..Len(Fields)}
ColumnOf == [f \in FieldNames |-> Fields[CHOOSE i \in 1..Len(Fields) : Fields[i][1] = f][2]]
FieldOf == [col \in Columns |-> Fields[CHOOSE i \in 1..Len(Fields) : Fields[i][2] = col][1]]
KindOf == [col \in Columns |-> Fields[CHOOSE i \in 1..Len(Fields) : Fields[i][2] = col][3]]
\* The fields fetchCarriersFromSupabase maps with || [] (lines 174-176).
ArrayFields == {"operationClassification", "carrierOperation", "cargoCarried"}

\* The record of saveCarrierToSupabase with every column passed as it is.
SaveRecordNoDefaults(c) ==
    [col \in Columns |-> c[FieldOf[col]]]

\* Lines 48-76: the record built from the carrier.
SaveRecord(c) ==
    [col \in Columns |->
        CASE KindOf[col] = "asis" -> c[FieldOf[col]]
          [] KindOf[col] = "orNull" -> OrElse(c[FieldOf[col]], Null)
          [] OTHER -> OrElse(c[FieldOf[col]], Arr(<<>>))]

\* Lines 157-185: a row mapped back to a carrier.
FetchMap(row) ==
    [f \in FieldNames |->
        IF f \in ArrayFields
        THEN OrElse(row[ColumnOf[f]], Arr(<<>>))
        ELSE row[ColumnOf[f]]]

Time(t) == [ty |-> "time", t |-> t]

\* JSON.stringify drops the keys whose value is undefined.
Sent(record) == {col \in DOMAIN record : record[col] # Undefined}

\* The row a record is inserted as (columns not sent are null; created_at
\* and updated_at default to the time of the insert).
InsertRow(record, t) ==
    [col \in Columns \cup {"created_at", "updated_at"} |->
        CASE col \in {"created_at", "updated_at"} -> Time(t)
          [] col \in Sent(record) -> record[col]
          [] OTHER -> Null]

\* A row with the columns of changes that were sent overwritten.
Overwrite(row, changes) ==
    [col \in DOMAIN row |-> IF col \in Sent(changes) THEN changes[col] ELSE row[col]]

\* An insert that ignores the conflict on mc_number.
UpsertAlwaysInserts(tbl, record, t) == Append(tbl, InsertRow(record, t))

\* Lines 79-81: upsert(record, {onConflict: 'mc_number'}).  The table is
\* kept in the order of created_at.
Upsert(tbl, record, t) ==
    IF \E i \in 1..Len(tbl) : tbl[i]["mc_number"] = record["mc_number"]
    THEN [i \in 1..Len(tbl) |->
            IF tbl[i]["mc_number"] = record["mc_number"]
            THEN Overwrite(tbl[i], record) ELSE tbl[i]]
    ELSE Append(tbl, InsertRow(record, t))

\* An update without its eq('dot_number', dotNumber).
UpdateAllRows(tbl, dot, changes) ==
    [i \in 1..Len(tbl) |-> Overwrite(tbl[i], changes)]

\* Lines 194-200 and 216-225: update(changes).eq('dot_number', dotNumber).
Update(tbl, dot, changes) ==
    [i \in 1..Len(tbl) |->
        IF tbl[i]["dot_number"] = Str(dot) THEN Overwrite(tbl[i], changes) ELSE tbl[i]]

Lower(str) ==
    [i \in 1..Len(str) |-> IF str[i] >= 65 /\ str[i] <= 90 THEN str[i] + 32 ELSE str[i]]
Contains(str, sub) ==
    \E i \in 0..(Len(str) - Len(sub)) : SubSeq(str, i + 1, i + Len(sub)) = sub
\* column like '%infix%': the match with the case of the letters kept.
ILikeCaseSensitive(v, infix) == v.ty = "string" /\ Contains(v.body, infix)

\* column ilike '%infix%'; null matches nothing.
ILike(v, infix) == v.ty = "string" /\ Contains(Lower(v.body), Lower(infix))
\* not (column ilike '%infix%'); null matches nothing either.
NotILike(v, infix) == v.ty = "string" /\ ~Contains(Lower(v.body), Lower(infix))

TextAuthorized == <<65, 85, 84, 72, 79, 82, 73, 90, 69, 68>>
TextNot == <<78, 79, 84>>

DefaultLimit == 200

\* Lines 115-136: does the row pass the filters?  An absent text filter is
\* the empty text, an absent active / hasEmail is "".
Matches(row, filters) ==
    /\ filters.mcNumber # <<>> => ILike(row["mc_number"], filters.mcNumber)
    /\ filters.dotNumber # <<>> => ILike(row["dot_number"], filters.dotNumber)
    /\ filters.legalName # <<>> => ILike(row["legal_name"], filters.legalName)
    /\ filters.active = "true" =>
         ILike(row["status"], TextAuthorized) /\ NotILike(row["status"], TextNot)
    /\ filters.active = "false" =>
         ILike(row["status"], TextNot) \/ NotILike(row["status"], TextAuthorized)
    /\ filters.state # <<>> => ILike(row["physical_address"], filters.state)
    /\ filters.hasEmail = "true" => row["email"] # Null
    /\ filters.hasEmail = "false" => row["email"] = Null

Reverse(seq) == [i \in 1..Len(seq) |-> seq[Len(seq) + 1 - i]]
Take(seq, n) == SubSeq(seq, 1, IF n < Len(seq) THEN n ELSE Len(seq))

\* The limit handed to the query as it is.
LimitOfNoDefault(filters) == filters.limit

\* Lines 141-147: the limit of the query (an absent limit is 0).
LimitOf(filters) == IF filters.limit # 0 THEN filters.limit ELSE DefaultLimit

\* The text of a column as a number, for a single digit; -1 otherwise.
NumberOf(v) ==
    IF v.ty = "string" /\ Len(v.body) = 1 /\ v.body[1] \in 48..57
    THEN v.body[1] - 48 ELSE -1

\* The query with the numeric filters applied to power_units and drivers.
SelectNumeric(tbl, filters) ==
    Take(Reverse(SelectSeq(tbl, LAMBDA row :
            /\ Matches(row, filters)
            /\ filters.powerUnitsMin # 0 => NumberOf(row["power_units"]) >= filters.powerUnitsMin
            /\ filters.powerUnitsMax # 0 => NumberOf(row["power_units"]) <= filters.powerUnitsMax
            /\ filters.driversMin # 0 => NumberOf(row["drivers"]) >= filters.driversMin
            /\ filters.driversMax # 0 => NumberOf(row["drivers"]) <= filters.driversMax)),
         LimitOf(filters))

\* Lines 111-149: the rows the query yields, newest first.
Select(tbl, filters) ==
    Take(Reverse(SelectSeq(tbl, LAMBDA row : Matches(row, filters))), LimitOf(filters))

MaxWrites == 2

\* The mcNumber values "7" and "71", the dotNumber values "1" and "2".
McNumbers == {<<55>>, <<55, 49>>}
DotNumbers == {<<49>>, <<50>>}

\* The carriers handed to saveCarrierToSupabase: every optional field set
\* ("full"), set to the empty string or array ("empty"), or left out
\* ("missing").
MakeCarrier(mc, dot, fill) ==
    [f \in FieldNames |->
        CASE f = "mcNumber" -> Str(mc)
          [] f = "dotNumber" -> Str(dot)
          [] f = "legalName" -> Str(<<65, 67, 77, 69>>)
          [] f = "entityType" -> Str(<<67>>)
          [] f = "status" -> Str(IF fill = "full" THEN TextAuthorized
                                 ELSE TextNot \o <<32>> \o TextAuthorized)
          [] f = "dateScraped" -> Str(<<50, 47, 50, 48>>)
          [] fill = "missing" -> Undefined
          [] f \in ArrayFields \cup {"basicScores", "oosRates", "insurancePolicies"} ->
               Arr(IF fill = "full" THEN <<Str(<<71>>)>> ELSE <<>>)
          [] f = "email" -> Str(IF fill = "full" THEN <<97, 64, 98>> ELSE <<>>)
          [] OTHER -> Str(IF fill = "full" THEN <<120>> ELSE <<>>)]

Fills == {"full", "empty", "missing"}
Carriers ==
    {MakeCarrier(mc, <<49>>, fill) : mc \in McNumbers, fill \in Fills}
    \cup {MakeCarrier(<<55, 49>>, <<50>>, "full")}

\* The filters handed to fetchCarriersFromSupabase.
NoFilters ==
    [mcNumber |-> <<>>, dotNumber |-> <<>>, legalName |-> <<>>, active |-> "",
     state |-> <<>>, hasEmail |-> "", powerUnitsMin |-> 0, powerUnitsMax |-> 0,
     driversMin |-> 0, driversMax |-> 0, limit |-> 0]
OnlyMc(mc) == [NoFilters EXCEPT !.mcNumber = mc]
FilterSets ==
    {[NoFilters EXCEPT !.mcNumber = mc, !.limit = lim] :
        mc \in {<<>>, <<55>>}, lim \in {0, 1}}
    \cup {[NoFilters EXCEPT !.active = a] : a \in {"true", "false"}}
    \cup {[NoFilters EXCEPT !.hasEmail = "true"],
          [NoFilters EXCEPT !.dotNumber = <<49>>, !.hasEmail = "false"],
          [NoFilters EXCEPT !.legalName = <<97, 99>>, !.state = <<120>>]}

\* What the awaited call to the backend yields: no error, an error object,
\* or an exception.
BackendOutcomes ==
    {[kind |-> "ok"], [kind |-> "error", message |-> "timeout"],
     [kind |-> "throws", message |-> "Failed to fetch"]}

IsNullish(x) == "ty" \in DOMAIN x /\ x.ty \in {"null", "undefined"}
TypeErrorMessage == "Cannot read properties of null"

\* The write wrappers without their try/catch.
WriteResultNoCatch(inputNullish, o) ==
    IF inputNullish THEN Throw(TypeErrorMessage)
    ELSE CASE o.kind = "ok" -> Return([success |-> TRUE])
           [] o.kind = "error" -> Return([success |-> FALSE, error |-> o.message])
           [] OTHER -> Throw(o.message)

\* Lines 83-92, 202-211, 227-236: what a write wrapper resolves to.  Reading
\* a property of a null input throws inside the try block.
WriteResult(inputNullish, o) ==
    IF inputNullish THEN Return([success |-> FALSE, error |-> TypeErrorMessage])
    ELSE CASE o.kind = "ok" -> Return([success |-> TRUE])
           [] OTHER -> Return([success |-> FALSE, error |-> o.message])

\* Lines 149-189: what fetchCarriersFromSupabase resolves to.
FetchResult(tbl, filters, o) ==
    IF o.kind = "ok"
    THEN LET rows == Select(tbl, filters)
         IN  Return([i \in 1..Len(rows) |-> FetchMap(rows[i])])
    ELSE Return(<<>>)

Applied(r) == r.kind = "return" /\ r.val.success

\* saveCarrierToSupabase(c), lines 46-93.
Save(c, o) ==
    LET r == WriteResult(IsNullish(c), o)
    IN  /\ now < DefaultLimit + 2 + MaxWrites
        /\ sbCall' = [op |-> "save", input |-> c, outcome |-> o, ret |-> r]
        /\ IF Applied(r)
           THEN /\ table' = Upsert(table, SaveRecord(c), now)
                /\ now' = now + 1
                /\ saved' = c
           ELSE UNCHANGED <<table, now, saved>>

\* fetchCarriersFromSupabase(filters), lines 109-190.
Fetch(filters, o) ==
    /\ sbCall' = [op |-> "fetch", input |-> filters, outcome |-> o,
                  ret |-> FetchResult(table, filters, o)]
    /\ UNCHANGED <<table, now, saved>>

\* updateCarrierInsurance(dot, data), lines 192-212.
UpdateInsurance(dot, data, o) ==
    LET r == WriteResult(IsNullish(data), o)
    IN  /\ now < DefaultLimit + 2 + MaxWrites
        /\ sbCall' = [op |-> "updateInsurance", input |-> <<dot, data>>, outcome |-> o,
                      ret |-> r]
        /\ IF Applied(r)
           THEN /\ table' = Update(table, dot,
                                   [insurance_policies |-> data.policies,
                                    updated_at |-> Time(now)])
                /\ now' = now + 1
                /\ saved' = NoReq
           ELSE UNCHANGED <<table, now, saved>>

\* updateCarrierSafety(dot, data), lines 214-237.
UpdateSafety(dot, data, o) ==
    LET r == WriteResult(IsNullish(data), o)
    IN  /\ now < DefaultLimit + 2 + MaxWrites
        /\ sbCall' = [op |-> "updateSafety", input |-> <<dot, data>>, outcome |-> o,
                      ret |-> r]
        /\ IF Applied(r)
           THEN /\ table' = Update(table, dot,
                                   [safety_rating |-> data.rating,
                                    safety_rating_date |-> data.ratingDate,
                                    basic_scores |-> data.basicScores,
                                    oos_rates |-> data.oosRates,
                                    updated_at |-> Time(now)])
                /\ now' = now + 1
                /\ saved' = NoReq
           ELSE UNCHANGED <<table, now, saved>>

InsuranceInputs == {Null, [policies |-> Arr(<<Str(<<80>>)>>)], [policies |-> Undefined]}
SafetyInputs ==
    {Null,
     [rating |-> Str(<<83>>), ratingDate |-> Str(<<50, 48>>),
      basicScores |-> Arr(<<Str(<<66>>)>>), oosRates |-> Arr(<<>>)]}

\* A table that more than DefaultLimit earlier saves have filled: the
\* carrier "7" first, then carriers "7001", "7002", ... of another USDOT
\* number.
BulkMc(i) ==
    IF i = 1 THEN <<55>>
    ELSE <<55, 48 + ((i - 1) \div 100), 48 + (((i - 1) \div 10) % 10), 48 + ((i - 1) % 10)>>
BulkTable ==
    [i \in 1..(DefaultLimit + 1) |->
        InsertRow(SaveRecord(MakeCarrier(BulkMc(i), <<57>>, "missing")), i)]

\* The operations of the wrapper, with the inputs drawn from the given sets.
SupabaseStep(carriers, filterSets, dots, insurances, safeties) ==
    \/ \E c \in carriers, o \in BackendOutcomes :
         Save(c, o) /\ UNCHANGED <<scrapeVars, pageVars, decodeVars, registerVars>>
    \/ \E f \in filterSets, o \in BackendOutcomes :
         Fetch(f, o) /\ UNCHANGED <<scrapeVars, pageVars, decodeVars, registerVars>>
    \/ \E dot \in dots, d \in insurances, o \in BackendOutcomes :
         UpdateInsurance(dot, d, o)
         /\ UNCHANGED <<scrapeVars, pageVars, decodeVars, registerVars>>
    \/ \E dot \in dots, d \in safeties, o \in BackendOutcomes :
         UpdateSafety(dot, d, o)
         /\ UNCHANGED <<scrapeVars, pageVars, decodeVars, registerVars>>

\* The wrapper on a table that starts empty.
SupabaseInit ==
    /\ ScrapeIdle /\ PageIdle /\ DecodeIdle /\ RegisterIdle
    /\ table = <<>>
    /\ now = DefaultLimit + 2
    /\ saved = NoReq
    /\ sbCall = [op |-> "none"]

SupabaseNext ==
    SupabaseStep(Carriers \cup {Null}, FilterSets, DotNumbers, InsuranceInputs, SafetyInputs)

SpecSupabase == SupabaseInit /\ [][SupabaseNext]_vars

\* The wrapper on a table that holds more rows than the default limit.
BulkInit ==
    /\ ScrapeIdle /\ PageIdle /\ DecodeIdle /\ RegisterIdle
    /\ table = BulkTable
    /\ now = DefaultLimit + 2
    /\ saved = NoReq
    /\ sbCall = [op |-> "none"]

BulkNext ==
    SupabaseStep(Carriers,
                 {OnlyMc(mc) : mc \in McNumbers} \cup {NoFilters},
                 {<<49>>}, {[policies |-> Arr(<<Str(<<80>>)>>)]}, SafetyInputs \ {Null})

SpecSupabaseBulk == BulkInit /\ [][BulkNext]_vars

\* The filters used on the filled table: none, a limit below and above the
\* default one, and on the email.
LimitFilters ==
    {NoFilters}
    \cup {[NoFilters EXCEPT !.limit = l] : l \in {1, DefaultLimit + 1}}
    \cup {[NoFilters EXCEPT !.hasEmail = h] : h \in {"true", "false"}}

\* The carriers saved to the filled table: the oldest one, "7", again, and
\* a new one.
LimitCarriers ==
    {MakeCarrier(<<55>>, <<49>>, fill) : fill \in Fills}
    \cup {MakeCarrier(<<55, 49>>, <<49>>, "missing")}

\* The filled table one write later.
LimitInit ==
    /\ ScrapeIdle /\ PageIdle /\ DecodeIdle /\ RegisterIdle
    /\ table = BulkTable
    /\ now = DefaultLimit + 3
    /\ saved = NoReq
    /\ sbCall = [op |-> "none"]

LimitNext ==
    SupabaseStep(LimitCarriers, LimitFilters,
                 {<<49>>}, {[policies |-> Arr(<<Str(<<80>>)>>)]}, SafetyInputs \ {Null})

SpecSupabaseLimit == LimitInit /\ [][LimitNext]_vars

\* The status values "NOT AUTHORIZED", "authorized" and "INACTIVE".
TextNotAuthorized == TextNot \o <<32>> \o TextAuthorized
TextAuthorizedLower == <<97, 117, 116, 104, 111, 114, 105, 122, 101, 100>>
TextInactive == <<73, 78, 65, 67, 84, 73, 86, 69>>

\* Five stored carriers "1" .. "5" that differ in status (the last one has
\* none), in USDOT number ("1" or "2") and in power units ("3", "9", none).
QueryStatuses ==
    <<Str(TextAuthorized), Str(TextNotAuthorized), Str(TextAuthorizedLower),
      Str(TextInactive), Null>>
QueryUnits == <<Str(<<51>>), Str(<<57>>), Undefined, Str(<<51>>), Str(<<57>>)>>
QueryCarrier(i) ==
    [MakeCarrier(<<48 + i>>, IF i % 2 = 1 THEN <<49>> ELSE <<50>>, "full")
        EXCEPT !["status"] = QueryStatuses[i],
               !["powerUnits"] = QueryUnits[i],
               !["drivers"] = QueryUnits[i]]
QueryTable ==
    [i \in 1..Len(QueryStatuses) |-> InsertRow(SaveRecord(QueryCarrier(i)), i)]

\* The carriers saved to that table: carrier "1" with another status, and
\* a new carrier "6".
QuerySaves ==
    {[QueryCarrier(1) EXCEPT !["status"] = Str(TextNotAuthorized)],
     MakeCarrier(<<54>>, <<49>>, "empty")}

\* The filters: each value of active with each single numeric filter, and
\* active together with a filter on the USDOT number.
NumericFilters ==
    {NoFilters,
     [NoFilters EXCEPT !.powerUnitsMin = 5], [NoFilters EXCEPT !.powerUnitsMax = 5],
     [NoFilters EXCEPT !.driversMin = 5], [NoFilters EXCEPT !.driversMax = 5]}
QueryFilters ==
    {[f EXCEPT !.active = a] : f \in NumericFilters, a \in {"", "true", "false"}}
    \cup {[NoFilters EXCEPT !.active = a, !.dotNumber = <<49>>] : a \in {"true", "false"}}

\* The USDOT numbers handed to the updates: "1" (stored) and "3" (not stored).
QueryDots == {<<49>>, <<51>>}

QueryInit ==
    /\ ScrapeIdle /\ PageIdle /\ DecodeIdle /\ RegisterIdle
    /\ table = QueryTable
    /\ now = DefaultLimit + 2
    /\ saved = NoReq
    /\ sbCall = [op |-> "none"]

QueryNext ==
    SupabaseStep(QuerySaves, QueryFilters, QueryDots, InsuranceInputs, SafetyInputs)

SpecSupabaseQuery == QueryInit /\ [][QueryNext]_vars

(***************************************************************************)
(* Properties of the Supabase wrappers                                     *)
(***************************************************************************)
WriteOps == {"save", "updateInsurance", "updateSafety"}
InputOf(call) == IF call.op = "save" THEN call.input ELSE call.input[2]
\* The message of what went wrong in a write call, "" when nothing did.
Failure(call) ==
    CASE IsNullish(InputOf(call)) -> TypeErrorMessage
      [] call.outcome.kind # "ok" -> call.outcome.message
      [] OTHER -> ""

\* C5: the wrappers never throw: when the backend reports an error or the
\* call raises an exception, the three write operations return
\* {success: false, error: <message>} and fetchCarriersFromSupabase returns
\* the empty list; {success: true} is returned only when the backend
\* reported no error.
C5_WrappersNeverThrow ==
    sbCall.op # "none" =>
        /\ sbCall.ret.kind = "return"
        /\ sbCall.op \in WriteOps =>
             IF Failure(sbCall) # ""
             THEN sbCall.ret.val = [success |-> FALSE, error |-> Failure(sbCall)]
             ELSE sbCall.ret.val = [success |-> TRUE]
        /\ (sbCall.op = "fetch" /\ sbCall.outcome.kind # "ok") => sbCall.ret.val = <<>>

C5_Witness ==
    /\ sbCall.op = "updateSafety"
    /\ sbCall.outcome.kind = "throws"
    /\ sbCall.ret = Return([success |-> FALSE, error |-> "Failed to fetch"])
    /\ table # <<>>

\* The interface CarrierRecord (lines 13-44): the fields without "?".
RequiredFields ==
    {"mcNumber", "dotNumber", "legalName", "entityType", "status", "dateScraped"}

IsEmpty(v) == v = Undefined \/ v = Null \/ v = Str(<<>>)

\* What the round trip is to give back for carrier c: c itself, with the
\* optional fields that are empty or missing null and the array fields
\* that are missing [].
RoundTripOf(c) ==
    [f \in FieldNames |->
        CASE f \in RequiredFields -> c[f]
          [] f \in ArrayFields -> IF IsEmpty(c[f]) THEN Arr(<<>>) ELSE c[f]
          [] OTHER -> IF IsEmpty(c[f]) THEN Null ELSE c[f]]

\* The last call is a successful fetch filtered on the mcNumber of the
\* carrier that the last write saved.
RoundTrip ==
    /\ sbCall.op = "fetch"
    /\ sbCall.outcome.kind = "ok"
    /\ saved # NoReq
    /\ sbCall.input = OnlyMc(saved["mcNumber"].body)

\* Is the row of the saved carrier among the DefaultLimit newest rows that
\* pass the filters?
SavedAmongNewest ==
    LET m == SelectSeq(table, LAMBDA row : Matches(row, sbCall.input))
    IN  \E i \in 1..Len(m) :
            /\ m[i]["mc_number"] = saved["mcNumber"]
            /\ Len(m) - i < DefaultLimit

ArraysAreArrays ==
    \A i \in 1..Len(sbCall.ret.val) :
        \A f \in ArrayFields : sbCall.ret.val[i][f].ty = "array"

\* C8 as amended: after saveCarrierToSupabase(c) succeeds, the fetch
\* filtered on c's mcNumber returns a carrier equal to c field by field
\* (empty or missing optional fields null, missing array fields []) exactly
\* when c's row is among the 200 most recently created rows whose mc_number
\* contains c's mcNumber, so always when at most 200 rows do; the array
\* fields of every returned carrier are arrays.
C8_RoundTripWithinLimit ==
    RoundTrip =>
        /\ (RoundTripOf(saved) \in Range(sbCall.ret.val)) <=> SavedAmongNewest
        /\ Len(SelectSeq(table, LAMBDA row : Matches(row, sbCall.input))) <= DefaultLimit
             => RoundTripOf(saved) \in Range(sbCall.ret.val)
        /\ ArraysAreArrays

C8_Witness ==
    /\ RoundTrip
    /\ saved = MakeCarrier(<<55, 49>>, <<49>>, "missing")
    /\ RoundTripOf(saved) \in Range(sbCall.ret.val)
    /\ RoundTripOf(saved)["email"] = Null
    /\ RoundTripOf(saved)["cargoCarried"] = Arr(<<>>)
    /\ Len(sbCall.ret.val) > 1

\* C8 as stated: after a successful save the fetch filtered on the saved
\* carrier's mcNumber returns the carrier, field by field.
C8_Original_RoundTrip ==
    RoundTrip => RoundTripOf(saved) \in Range(sbCall.ret.val) /\ ArraysAreArrays

\* At most one row per mc_number.
McNumberUnique ==
    \A i, j \in 1..Len(table) : table[i]["mc_number"] = table[j]["mc_number"] => i = j

\* The row of the carrier that was saved last carries that carrier's values.
LastSaveStored ==
    saved # NoReq =>
        \E i \in 1..Len(table) :
            /\ table[i]["mc_number"] = saved["mcNumber"]
            /\ FetchMap(table[i]) = RoundTripOf(saved)

\* A successful save of the carrier that the last write saved.
SavedAgain ==
    /\ sbCall'.op = "save"
    /\ Applied(sbCall'.ret)
    /\ saved # NoReq
    /\ sbCall'.input = saved

\* C11: upsert keeps mc_number unique: after any sequence of successful
\* saves the table holds at most one row per mc_number and that row carries
\* the values of the most recent save for that mc_number; saving the same
\* carrier twice leaves the same table contents as saving it once.
C11_UpsertKeepsMcUnique ==
    /\ [](McNumberUnique /\ LastSaveStored)
    /\ [][SavedAgain => table' = table]_vars

\* Two successful saves of the same mc_number, the second of a carrier
\* without optional fields: one row, created by the first save.
C11_Witness ==
    /\ now = DefaultLimit + 2 + 2
    /\ Len(table) = 1
    /\ table[1]["created_at"] = Time(DefaultLimit + 2)
    /\ sbCall.op = "save" /\ Applied(sbCall.ret)
    /\ saved = MakeCarrier(<<55>>, <<49>>, "missing")
    /\ table[1]["email"] = Null

\* The rows that pass the filters, oldest first.
Matching(filters) == SelectSeq(table, LAMBDA row : Matches(row, filters))

\* The bound the claim puts on the result.
BoundOf(filters) == IF filters.limit > 0 THEN filters.limit ELSE 200

Min(a, b) == IF a < b THEN a ELSE b

\* The rows of the table are in the strict order of their created_at.
CreatedAscending ==
    \A i, j \in 1..Len(table) :
        i < j => table[i]["created_at"].t < table[j]["created_at"].t

\* C12: fetchCarriersFromSupabase bounds and orders its result: it returns
\* at most filters.limit carriers when a positive limit is given and at most
\* 200 otherwise (limit 0 or absent); the result is always the newest rows
\* by created_at, in descending order, among those that pass the filters
\* (all of the bound's worth of them when the backend reports no error).
C12_BoundedNewestFirst ==
    sbCall.op = "fetch" =>
        LET m == Matching(sbCall.input)
            r == sbCall.ret.val
        IN  /\ CreatedAscending
            /\ Len(r) <= BoundOf(sbCall.input)
            /\ Len(r) <= Len(m)
            /\ \A i \in 1..Len(r) : r[i] = FetchMap(m[Len(m) + 1 - i])
            /\ sbCall.outcome.kind = "ok" => Len(r) = Min(BoundOf(sbCall.input), Len(m))

\* A fetch without a limit on a table of more than 200 rows: the 200
\* newest come back, the carrier saved last first.
C12_Witness ==
    /\ sbCall.op = "fetch" /\ sbCall.outcome.kind = "ok"
    /\ sbCall.input = NoFilters
    /\ Len(table) > DefaultLimit + 1
    /\ Len(sbCall.ret.val) = 200
    /\ saved # NoReq
    /\ sbCall.ret.val[1] = RoundTripOf(saved)

\* The last call is a successful fetch filtered on hasEmail alone, after a
\* successful save that no other write followed.
EmailTrip ==
    /\ sbCall.op = "fetch"
    /\ sbCall.outcome.kind = "ok"
    /\ saved # NoReq
    /\ sbCall.input \in {[NoFilters EXCEPT !.hasEmail = h] : h \in {"true", "false"}}

SavedReturned ==
    \E i \in 1..Len(sbCall.ret.val) : sbCall.ret.val[i]["mcNumber"] = saved["mcNumber"]

SavedRow == table[CHOOSE i \in 1..Len(table) : table[i]["mc_number"] = saved["mcNumber"]]

\* Fewer than 200 rows created after the saved carrier's row have an email
\* that is null (withNull) resp. not null.
FewNewer(withNull) ==
    LET i == CHOOSE k \in 1..Len(table) : table[k]["mc_number"] = saved["mcNumber"]
    IN  Cardinality({j \in (i + 1)..Len(table) :
                        (table[j]["email"] = Null) = withNull}) < 200

\* C13 as amended: a carrier saved with an empty or missing email is stored
\* with email null; the fetch with hasEmail='true' never returns it, and
\* the fetch with hasEmail='false' returns it exactly when fewer than 200
\* rows with a null email were created after its row; a carrier saved with
\* a non-empty email is never returned with hasEmail='false', and is
\* returned with hasEmail='true' exactly when fewer than 200 rows with an
\* email were created after its row.
C13_EmailFilterWithinLimit ==
    EmailTrip =>
        LET empty == IsEmpty(saved["email"])
            wantNull == sbCall.input.hasEmail = "false"
        IN  /\ (SavedRow["email"] = Null) <=> empty
            /\ ~empty => SavedRow["email"] = saved["email"]
            /\ SavedReturned <=> (empty = wantNull /\ FewNewer(wantNull))

\* A new carrier without email is saved to the filled table and comes back
\* among the 200 carriers of hasEmail='false'.
C13_Witness ==
    /\ EmailTrip
    /\ saved = MakeCarrier(<<55, 49>>, <<49>>, "missing")
    /\ sbCall.input.hasEmail = "false"
    /\ SavedReturned
    /\ Len(sbCall.ret.val) = 200

\* C13 as stated: after the save, a carrier with an empty or missing email
\* is returned with hasEmail='false' and not with hasEmail='true'; one with
\* a non-empty email is returned with hasEmail='true' and not with 'false'.
C13_Original_EmailFilter ==
    EmailTrip =>
        /\ (SavedRow["email"] = Null) <=> IsEmpty(saved["email"])
        /\ SavedReturned <=> (IsEmpty(saved["email"]) = (sbCall.input.hasEmail = "false"))

\* The filters with active the other way round, and without active.
FlipActive(filters) ==
    [filters EXCEPT !.active = IF filters.active = "true" THEN "false" ELSE "true"]
WithoutActive(filters) == [filters EXCEPT !.active = ""]

\* The last call is a successful fetch with active='true' and a limit
\* larger than the table.
ActiveFetch ==
    /\ sbCall.op = "fetch"
    /\ sbCall.outcome.kind = "ok"
    /\ sbCall.input.active = "true"
    /\ LimitOf(sbCall.input) > Len(table)

\* What the same fetch with active='false' returns on the same table.
InactiveCarriers ==
    Range(FetchResult(table, FlipActive(sbCall.input), [kind |-> "ok"]).val)

\* The rows that pass the filters other than active.
OtherwiseMatching ==
    {table[i] : i \in {k \in 1..Len(table) : Matches(table[k], WithoutActive(sbCall.input))}}

\* Does the status contain the text, whatever the case of the letters?
StatusContains(row, text) ==
    /\ row["status"].ty = "string"
    /\ \E i \in 1..Len(row["status"].body) :
         /\ i + Len(text) - 1 <= Len(row["status"].body)
         /\ \A k \in 1..Len(text) :
              LET a == row["status"].body[i + k - 1]
                  b == text[k]
              IN  a = b \/ (a \in 97..122 /\ a - 32 = b) \/ (a \in 65..90 /\ a + 32 = b)

\* C14: the active filter partitions the carriers: with otherwise equal
\* filters and a limit larger than the table, the results for active='true'
\* and active='false' are disjoint, every carrier with a non-null status
\* (that passes the other filters) is in exactly one of them, and
\* active='true' returns exactly the carriers whose status contains
\* AUTHORIZED and does not contain NOT, case-insensitively.
C14_ActivePartitions ==
    ActiveFetch =>
        LET active == Range(sbCall.ret.val)
        IN  /\ active \cap InactiveCarriers = {}
            /\ \A row \in OtherwiseMatching :
                 row["status"] # Null => FetchMap(row) \in active \cup InactiveCarriers
            /\ active = {FetchMap(row) : row \in
                            {r \in OtherwiseMatching :
                                /\ StatusContains(r, TextAuthorized)
                                /\ ~StatusContains(r, TextNot)}}

\* On the table of five carriers active='true' returns "AUTHORIZED" and
\* "authorized", active='false' returns "NOT AUTHORIZED" and "INACTIVE", and
\* the carrier without status is in neither.
C14_Witness ==
    /\ ActiveFetch
    /\ sbCall.input = [NoFilters EXCEPT !.active = "true"]
    /\ table = QueryTable
    /\ Range(sbCall.ret.val) = {FetchMap(QueryTable[1]), FetchMap(QueryTable[3])}
    /\ InactiveCarriers = {FetchMap(QueryTable[2]), FetchMap(QueryTable[4])}

\* The filters with the four numeric ones left out.
WithoutNumeric(filters) ==
    [filters EXCEPT !.powerUnitsMin = 0, !.powerUnitsMax = 0,
                    !.driversMin = 0, !.driversMax = 0]

InsuranceColumns == {"insurance_policies", "updated_at"}
SafetyColumns ==
    {"safety_rating", "safety_rating_date", "basic_scores", "oos_rates", "updated_at"}

\* The step is a call of the update op that the backend carried out.
Updated(op) == sbCall'.op = op /\ sbCall'.outcome.kind = "ok" /\ ~IsNullish(sbCall'.input[2])

\* Rows are neither created nor deleted; the rows of another dot_number
\* are unchanged; in the rows of dot, only columns of own change.
OnlyOwnColumns(dot, own) ==
    /\ Len(table') = Len(table)
    /\ \A i \in 1..Len(table) :
         IF table[i]["dot_number"] = Str(dot)
         THEN \A col \in DOMAIN table[i] \ own : table'[i][col] = table[i][col]
         ELSE table'[i] = table[i]

\* The value a column is set to: an undefined one is not sent.
SetTo(i, col, v) == table'[i][col] = IF v = Undefined THEN table[i][col] ELSE v

\* C16: updateCarrierInsurance(dot, d) modifies only insurance_policies
\* and updated_at, and updateCarrierSafety(dot, s) only safety_rating,
\* safety_rating_date, basic_scores, oos_rates and updated_at, in exactly
\* the rows whose dot_number equals dot; every other column and row is
\* unchanged, no row is created, and when no row matches the table is
\* unchanged while the call still returns {success: true}.
C16_UpdatesOnlyOwnColumns ==
    [][/\ Updated("updateInsurance") =>
            LET dot == sbCall'.input[1]
                d == sbCall'.input[2]
            IN  /\ sbCall'.ret = Return([success |-> TRUE])
                /\ OnlyOwnColumns(dot, InsuranceColumns)
                /\ \A i \in 1..Len(table) : table[i]["dot_number"] = Str(dot) =>
                     /\ SetTo(i, "insurance_policies", d.policies)
                     /\ table'[i]["updated_at"] = Time(now)
       /\ Updated("updateSafety") =>
            LET dot == sbCall'.input[1]
                d == sbCall'.input[2]
            IN  /\ sbCall'.ret = Return([success |-> TRUE])
                /\ OnlyOwnColumns(dot, SafetyColumns)
                /\ \A i \in 1..Len(table) : table[i]["dot_number"] = Str(dot) =>
                     /\ SetTo(i, "safety_rating", d.rating)
                     /\ SetTo(i, "safety_rating_date", d.ratingDate)
                     /\ SetTo(i, "basic_scores", d.basicScores)
                     /\ SetTo(i, "oos_rates", d.oosRates)
                     /\ table'[i]["updated_at"] = Time(now)
       /\ (sbCall'.op \in {"updateInsurance", "updateSafety"}
           /\ ~\E i \in 1..Len(table) : table[i]["dot_number"] = Str(sbCall'.input[1]))
          => table' = table
      ]_vars

\* updateCarrierInsurance("1", d) has set the policies of the three
\* carriers of USDOT number 1 and left those of USDOT number 2 as they were.
C16_Witness ==
    /\ sbCall.op = "updateInsurance"
    /\ sbCall.input = <<<<49>>, [policies |-> Arr(<<Str(<<80>>)>>)]>>
    /\ sbCall.ret = Return([success |-> TRUE])
    /\ Len(table) = Len(QueryTable)
    /\ \A i \in {1, 3, 5} :
         /\ table[i]["insurance_policies"] = Arr(<<Str(<<80>>)>>)
         /\ table[i]["updated_at"] = Time(DefaultLimit + 2)
         /\ table[i]["safety_rating"] = QueryTable[i]["safety_rating"]
    /\ \A i \in {2, 4} : table[i] = QueryTable[i]

====
